---------------------------- MODULE Spec2Model ----------------------------
(***************************************************************************)
(* A model of the Ion parser of src/src/parser.rs: the character cursor,   *)
(* the lexical primitives, the value grammar, the element producer         *)
(* (Iterator::next with the section filter) and the document builder       *)
(* (Parser::read).                                                         *)
(*                                                                         *)
(* Text is a sequence of one-character strings; all modelled input is      *)
(* ASCII, so a byte offset of the source is an index of the sequence minus *)
(* one.  Option<T> is a sequence of length 0 (None) or 1 (Some).  A method *)
(* taking &mut self becomes an operator from the parser record p to the    *)
(* record Ret(p', result).                                                 *)
(***************************************************************************)
EXTENDS Integers, Sequences, FiniteSets, TLC

VARIABLES
    input,              \* Parser::input
    cur,                \* Parser::cur: index of the next character, Len(input)+1 when exhausted
    errors,             \* Parser::errors
    accepted_sections,  \* Parser::accepted_sections: Option<Vec<&str>>
    pc,                 \* where the caller is: "read" (inside read()'s loop) or "done" (read() returned)
    map,                \* read(): let mut map
    section,            \* read(): let mut section
    name,               \* read(): let mut name: Option<String>
    result,             \* what read() returned: Option<BTreeMap>, None until it returns
    calls,              \* history: what each call of next() returned, in order
    config,             \* history: the filter the parser was constructed with
    doc                 \* history: what the input was assembled from: indices into Lines, or a text

vars == <<input, cur, errors, accepted_sections, pc, map, section, name, result, calls,
          config, doc>>

-----------------------------------------------------------------------------
(* Option *)

None == <<>>
Some(x) == <<x>>
IsSome(o) == Len(o) = 1
Get(o) == o[1]

Ret(p, r) == [p |-> p, r |-> r]

\* Bind(e, LAMBDA x : body) is "let x = e; body": the value of e is computed once,
\* then the body is evaluated with x bound to it.
Bind(v, F(_)) == CHOOSE r \in {F(x) : x \in {v}} : TRUE

-----------------------------------------------------------------------------
(* Characters *)

Lower == {"a","b","c","d","e","f","g","h","i","j","k","l","m",
          "n","o","p","q","r","s","t","u","v","w","x","y","z"}
Upper == {"A","B","C","D","E","F","G","H","I","J","K","L","M",
          "N","O","P","Q","R","S","T","U","V","W","X","Y","Z"}
DigitSeq == <<"0","1","2","3","4","5","6","7","8","9">>
AsciiDigit == {DigitSeq[i] : i \in 1..10}
KeyChar == Lower \cup Upper \cup AsciiDigit \cup {"_", "-"}
\* char::is_whitespace restricted to ASCII, as used by str::trim_end
WhiteSpace == {" ", "\t", "\n", "\r", "\f"}

EOF == "<eof>"   \* what peek yields on an exhausted cursor; no character equals it

-----------------------------------------------------------------------------
(* Cursor *)

peek(p) == IF p.cur <= Len(p.input) THEN p.input[p.cur] ELSE EOF

cur_next(p) == IF p.cur <= Len(p.input) THEN [p EXCEPT !.cur = @ + 1] ELSE p

SetCur(p, i) == [p EXCEPT !.cur = i]

add_error(p, message) ==
    [p EXCEPT !.errors =
        Append(@, [lo   |-> IF p.cur <= Len(p.input) THEN p.cur - 1 ELSE Len(p.input),
                   hi   |-> IF p.cur + 1 <= Len(p.input) THEN p.cur ELSE Len(p.input),
                   desc |-> message])]

\* First index at or after i whose character is not in the class.
RECURSIVE WhileEnd(_, _, _)
WhileEnd(s, i, class) ==
    IF i <= Len(s) /\ s[i] \in class THEN WhileEnd(s, i + 1, class) ELSE i

whitespace(p) == SetCur(p, WhileEnd(p.input, p.cur, {"\t", " "}))

newline(p) ==
    CASE peek(p) = "\n" -> Ret(cur_next(p), TRUE)
      [] peek(p) = "\r" ->
            Ret(IF peek(cur_next(p)) = "\n" THEN cur_next(cur_next(p)) ELSE cur_next(p), TRUE)
      [] OTHER -> Ret(p, FALSE)

\* self.cur.by_ref().find(|&(_, c)| c != '\n'): Iterator::find consumes items up to
\* and including the first one that satisfies the predicate.
skip_line(p) == cur_next(SetCur(p, WhileEnd(p.input, p.cur, {"\n"})))

eat(p, ch) ==
    IF peek(p) = ch THEN Ret(cur_next(p), TRUE) ELSE Ret(p, FALSE)

expect(p, ch) == eat(p, ch)

\* Index of the first ch at or after i, 0 when there is none (Iterator::find).
RECURSIVE FindChar(_, _, _)
FindChar(s, i, ch) ==
    IF i > Len(s) THEN 0
    ELSE IF s[i] = ch THEN i
    ELSE FindChar(s, i + 1, ch)

\* The slice input[start..end) with the cursor left after index last; end = 0
\* stands for "the delimiter was not found": the slice runs to the end of input.
SliceTo(p, start, end, last) ==
    IF end = 0
      THEN Ret(SetCur(p, Len(p.input) + 1), Some(SubSeq(p.input, start, Len(p.input))))
    ELSE Ret(SetCur(p, last + 1), Some(SubSeq(p.input, start, end - 1)))

slice_to_including(p, ch) ==
    IF peek(p) = EOF THEN Ret(p, None)
    ELSE IF peek(p) = ch THEN Ret(cur_next(p), Some(<<ch>>))
    ELSE Bind(FindChar(p.input, p.cur + 1, ch), LAMBDA end :
         SliceTo(p, p.cur, IF end = 0 THEN 0 ELSE end + 1, end))

\* a search that stops at the first ch, escaped or not
FindUnescaped_any(s, i, prev_element, ch) == FindChar(s, i, ch)

\* The loop of slice_to_excluding: index of the first ch at or after i that is
\* not directly preceded by a backslash, 0 when there is none.
RECURSIVE FindUnescaped(_, _, _, _)
FindUnescaped(s, i, prev_element, ch) ==
    IF i > Len(s) THEN 0
    ELSE IF s[i] = ch /\ prev_element # "\\" THEN i
    ELSE FindUnescaped(s, i + 1, s[i], ch)

slice_to_excluding(p, ch) ==
    IF peek(p) = EOF THEN Ret(p, None)
    ELSE IF peek(p) = ch THEN Ret(cur_next(p), Some(<<>>))
    ELSE Bind(FindUnescaped(p.input, p.cur + 1, peek(p), ch), LAMBDA i :
         SliceTo(p, p.cur, i, i))

\* The predicate is given as the set of characters that satisfy it.
slice_while(p, class) ==
    IF peek(p) \notin class THEN Ret(p, None)
    ELSE Bind(WhileEnd(p.input, p.cur + 1, class), LAMBDA end :
         Ret(SetCur(p, end), Some(SubSeq(p.input, p.cur, end - 1))))

-----------------------------------------------------------------------------
(* str::replace and str::trim_end *)

\* s.replace(from, to) for a two-character pattern <<a, b>> and a one-character
\* replacement: non-overlapping matches, left to right.
RECURSIVE replace(_, _, _, _)
replace(s, a, b, to) ==
    IF Len(s) < 2 THEN s
    ELSE IF s[1] = a /\ s[2] = b
      THEN <<to>> \o replace(SubSeq(s, 3, Len(s)), a, b, to)
    ELSE <<s[1]>> \o replace(Tail(s), a, b, to)

RECURSIVE trim_end(_)
trim_end(s) ==
    IF s # <<>> /\ s[Len(s)] \in WhiteSpace
      THEN trim_end(SubSeq(s, 1, Len(s) - 1))
    ELSE s

-----------------------------------------------------------------------------
(* Values and elements *)

\* A Value is the pair of its variant and its payload.
String(s)     == <<"String", s>>
Integer(n)    == <<"Integer", n>>
Float(m, e)   == <<"Float", <<m, e>>>>   \* the number m / 10^e, e minimal
Boolean(b)    == <<"Boolean", b>>
Array(vs)     == <<"Array", vs>>
Dictionary(d) == <<"Dictionary", d>>

SectionEl(n)  == [t |-> "Section", name |-> n]
Row(cells)    == [t |-> "Row", cells |-> cells]
Entry(k, v)   == [t |-> "Entry", key |-> k, value |-> v]
Comment(s)    == [t |-> "Comment", text |-> s]

\* BTreeMap::new and BTreeMap::insert (an existing key is overwritten)
EmptyMap == [k \in {} |-> None]
Insert(m, k, v) == [x \in DOMAIN m \cup {k} |-> IF x = k THEN v ELSE m[x]]

\* Section::with_capacity: an empty dictionary and no rows
NewSection == [dictionary |-> EmptyMap, rows |-> <<>>]

-----------------------------------------------------------------------------
(* str::parse for i64 and f64, on the texts number() hands them: digit runs *)

DigitValue(c) == CHOOSE d \in 0..9 : DigitSeq[d + 1] = c

RECURSIVE DigitsValue(_)
DigitsValue(s) ==
    IF s = <<>> THEN 0
    ELSE DigitsValue(SubSeq(s, 1, Len(s) - 1)) * 10 + DigitValue(s[Len(s)])

\* i64 overflow needs a run of 19 digits: the runs of the modelled inputs are shorter.
parse_i64(s) == Some(Integer(DigitsValue(s)))

RECURSIVE StripZeros(_)
StripZeros(s) ==
    IF s # <<>> /\ s[Len(s)] = "0" THEN StripZeros(SubSeq(s, 1, Len(s) - 1)) ELSE s

\* "<int>.<frac>" or "<int>" read as f64: equal decimals give equal floats.
parse_f64(int, frac) ==
    Some(Float(DigitsValue(int \o StripZeros(frac)), Len(StripZeros(frac))))

-----------------------------------------------------------------------------
(* Value grammar *)

section_name(p) ==
    Bind(whitespace(eat(p, "[").p), LAMBDA q :
    Bind(FindChar(q.input, q.cur, "]"), LAMBDA close :
    IF close = 0
      THEN Ret(SetCur(q, Len(q.input) + 1), SubSeq(q.input, q.cur, Len(q.input)))
    ELSE Ret(SetCur(q, close + 1), SubSeq(q.input, q.cur, close - 1))))

key_name(p) == slice_while(p, KeyChar)

keyval_sep(p) ==
    Bind(expect(whitespace(p), "="), LAMBDA e :
    IF ~e.r THEN Ret(e.p, FALSE) ELSE Ret(whitespace(e.p), TRUE))

integer(p) == slice_while(p, AsciiDigit)

\* decimal is Some(self.integer())?, that is self.integer(): an Option<String>
number(p) ==
    Bind(integer(p), LAMBDA prefix :
    IF ~IsSome(prefix.r) THEN Ret(prefix.p, None)
    ELSE Bind(eat(prefix.p, "."), LAMBDA dot :
         IF dot.r
           THEN Bind(integer(dot.p), LAMBDA decimal :
                Ret(decimal.p,
                    parse_f64(Get(prefix.r),
                              IF IsSome(decimal.r) THEN Get(decimal.r) ELSE <<>>)))
         ELSE Ret(dot.p, parse_i64(Get(prefix.r)))))

StartsWith(s, from, lit) ==
    /\ from + Len(lit) - 1 <= Len(s)
    /\ SubSeq(s, from, from + Len(lit) - 1) = lit

boolean(p, start) ==
    IF StartsWith(p.input, start, <<"t","r","u","e">>)
      THEN Ret(SetCur(p, p.cur + 4), Some(Boolean(TRUE)))
    ELSE IF StartsWith(p.input, start, <<"f","a","l","s","e">>)
      THEN Ret(SetCur(p, p.cur + 5), Some(Boolean(FALSE)))
    ELSE Ret(p, None)

StringUnescape(s) ==
    Bind(replace(s, "\\", "\\", "\\"), LAMBDA s1 :
    Bind(replace(s1, "\\", "n", "\n"), LAMBDA s2 :
    replace(s2, "\\", "\"", "\"")))

finish_string(p) ==
    Bind(slice_to_excluding(cur_next(p), "\""), LAMBDA s :
    Ret(s.p, IF IsSome(s.r) THEN Some(String(StringUnescape(Get(s.r)))) ELSE None))

RECURSIVE value(_)
RECURSIVE array_loop(_, _)
RECURSIVE dictionary_loop(_, _)
RECURSIVE entry(_)

\* an array loop that records an error of its own when a value inside fails
array_loop_reporting(p0, row) ==
    Bind(whitespace(p0), LAMBDA p :
    CASE peek(p) = EOF -> Ret(add_error(p, "Cannot finish an array"), None)
      [] peek(p) = "]" -> Ret(cur_next(p), Some(Array(row)))
      [] peek(p) = "," -> array_loop(cur_next(p), row)
      [] OTHER ->
           Bind(value(p), LAMBDA v :
           IF IsSome(v.r) THEN array_loop(v.p, Append(row, Get(v.r)))
           ELSE Ret(add_error(v.p, "Cannot finish an array"), None)))

\* the loop of finish_array, row being the values pushed so far
array_loop(p0, row) ==
    Bind(whitespace(p0), LAMBDA p :
    CASE peek(p) = EOF -> Ret(add_error(p, "Cannot finish an array"), None)
      [] peek(p) = "]" -> Ret(cur_next(p), Some(Array(row)))
      [] peek(p) = "," -> array_loop(cur_next(p), row)
      [] OTHER ->
           Bind(value(p), LAMBDA v :
           IF IsSome(v.r) THEN array_loop(v.p, Append(row, Get(v.r)))
           ELSE Ret(v.p, None)))

finish_array(p) == array_loop(cur_next(p), <<>>)

\* a dictionary loop that takes only the comma for a separator
dictionary_loop_commas(p0, m) ==
    Bind(whitespace(p0), LAMBDA p :
    CASE peek(p) = EOF -> Ret(add_error(p, "Cannot finish a dictionary"), None)
      [] peek(p) = "}" -> Ret(cur_next(p), Some(Dictionary(m)))
      [] peek(p) = "," -> dictionary_loop(cur_next(p), m)
      [] OTHER ->
           Bind(entry(p), LAMBDA e :
           IF IsSome(e.r)
             THEN dictionary_loop(e.p, Insert(m, Get(e.r).key, Get(e.r).value))
           ELSE Ret(e.p, None)))

\* the loop of finish_dictionary, m being the entries inserted so far
dictionary_loop(p0, m) ==
    Bind(whitespace(p0), LAMBDA p :
    CASE peek(p) = EOF -> Ret(add_error(p, "Cannot finish a dictionary"), None)
      [] peek(p) = "}" -> Ret(cur_next(p), Some(Dictionary(m)))
      [] peek(p) = "," -> dictionary_loop(cur_next(p), m)
      [] peek(p) = "\n" -> dictionary_loop(cur_next(p), m)
      [] OTHER ->
           Bind(entry(p), LAMBDA e :
           IF IsSome(e.r)
             THEN dictionary_loop(e.p, Insert(m, Get(e.r).key, Get(e.r).value))
           ELSE Ret(e.p, None)))

finish_dictionary(p) == dictionary_loop(cur_next(p), EmptyMap)

value(p0) ==
    Bind(whitespace(newline(whitespace(p0)).p), LAMBDA p :
    CASE peek(p) = "\"" -> finish_string(p)
      [] peek(p) = "[" -> finish_array(p)
      [] peek(p) = "{" -> finish_dictionary(p)
      [] peek(p) \in AsciiDigit -> number(p)
      [] peek(p) \in {"t", "f"} -> boolean(p, p.cur)
      [] OTHER -> Ret(add_error(p, "Cannot read a value"), None))

entry(p) ==
    Bind(key_name(p), LAMBDA key :
    IF ~IsSome(key.r) THEN Ret(key.p, None)
    ELSE Bind(keyval_sep(key.p), LAMBDA sep :
         IF ~sep.r THEN Ret(sep.p, None)
         ELSE Bind(value(sep.p), LAMBDA val :
              IF IsSome(val.r)
                THEN Ret(val.p, Some(Entry(Get(key.r), Get(val.r))))
              ELSE Ret(val.p, None))))

-----------------------------------------------------------------------------
(* Comments and table rows *)

comment(p) ==
    IF ~eat(p, "#").r THEN Ret(p, None)
    ELSE Bind(slice_to_including(cur_next(p), "\n"), LAMBDA s :
         Ret(s.p, Some(Comment(IF IsSome(s.r) THEN Get(s.r) ELSE <<>>))))

CellUnescape(s) ==
    Bind(replace(s, "\\", "\\", "\\"), LAMBDA s1 :
    Bind(replace(s1, "\\", "n", "\n"), LAMBDA s2 :
    replace(s2, "\\", "|", "|")))

\* a cell() that keeps the whitespace before the delimiter
cell_untrimmed(p) ==
    Bind(slice_to_excluding(whitespace(p), "|"), LAMBDA s :
    Ret(s.p, CellUnescape(IF IsSome(s.r) THEN Get(s.r) ELSE <<>>)))

cell(p) ==
    Bind(slice_to_excluding(whitespace(p), "|"), LAMBDA s :
    Ret(s.p, CellUnescape(IF IsSome(s.r) THEN trim_end(Get(s.r)) ELSE <<>>)))

\* the loop of row(), cells being the cells pushed so far
RECURSIVE row_loop(_, _)
row_loop(p0, cells) ==
    Bind(whitespace(p0), LAMBDA p :
    IF peek(p) = "#" THEN Ret(comment(p).p, Some(Row(cells)))
    ELSE IF peek(p) \in {"\n", "\r"} THEN Ret(newline(p).p, Some(Row(cells)))
    ELSE IF peek(p) = EOF THEN Ret(p, Some(Row(cells)))
    ELSE Bind(cell(p), LAMBDA c : row_loop(c.p, Append(cells, String(c.r)))))

\* a row() that yields without reading anything
row_unconsumed(p) == Ret(p, Some(Row(<<>>)))

row(p) == row_loop(eat(p, "|").p, <<>>)

-----------------------------------------------------------------------------
(* The section filter and the element producer *)

\* Vec::swap_remove: the last element takes the place of the removed one
swap_remove(v, idx) ==
    IF idx = Len(v) THEN SubSeq(v, 1, Len(v) - 1)
    ELSE SubSeq(v, 1, idx - 1) \o <<v[Len(v)]>> \o SubSeq(v, idx + 1, Len(v) - 1)

\* iter().position: the first index whose element equals x, 0 when there is none
position(v, x) ==
    IF \E i \in 1..Len(v) : v[i] = x
      THEN CHOOSE i \in 1..Len(v) : v[i] = x /\ \A j \in 1..(i - 1) : v[j] # x
    ELSE 0

\* Option<bool>
is_section_accepted(p, n) ==
    IF ~IsSome(p.accepted_sections) THEN Ret(p, Some(TRUE))
    ELSE IF Get(p.accepted_sections) = <<>> THEN Ret(p, None)
    ELSE Bind(position(Get(p.accepted_sections), n), LAMBDA idx :
         IF idx # 0
           THEN Ret([p EXCEPT !.accepted_sections = Some(swap_remove(Get(@), idx))],
                    Some(TRUE))
         ELSE Ret(p, Some(FALSE)))

\* What a call of next() returns, with the place it returned from:
\* "eof" (line 39), "filter" (line 48), "section" (line 46) or "element" (lines 57-61).
NextRet(e, at) == [p |-> e.p, r |-> e.r, at |-> at]

\* the loop of next(), accepted being the local is_section_accepted
RECURSIVE next_loop(_, _)
next_loop(p0, accepted) ==
    Bind(whitespace(p0), LAMBDA p :
    IF peek(p) \in {"\n", "\r"} THEN next_loop(newline(p).p, accepted)
    ELSE IF peek(p) = EOF THEN NextRet(Ret(p, None), "eof")
    ELSE IF peek(p) = "["
      THEN Bind(section_name(p), LAMBDA n :
           Bind(is_section_accepted(n.p, n.r), LAMBDA acc :
           IF acc.r = Some(TRUE) THEN NextRet(Ret(acc.p, Some(SectionEl(n.r))), "section")
           ELSE IF acc.r = None THEN NextRet(Ret(acc.p, None), "filter")
           ELSE next_loop(skip_line(acc.p), FALSE)))
    ELSE IF ~accepted THEN next_loop(skip_line(p), FALSE)
    ELSE IF peek(p) = "|" THEN NextRet(row(p), "element")
    ELSE IF peek(p) = "#" THEN NextRet(comment(p), "element")
    ELSE NextRet(entry(p), "element"))

next(p) == next_loop(p, TRUE)

-----------------------------------------------------------------------------
(* The document builder: read() *)

root == <<"r","o","o","t">>

\* the match of read()'s loop (lines 390-403) on one element
read_element(st, el) ==
    CASE el.t = "Section" ->
           [map     |-> IF IsSome(st.name) THEN Insert(st.map, Get(st.name), st.section)
                        ELSE st.map,
            name    |-> Some(el.name),
            section |-> NewSection]
      [] el.t = "Row" ->
           [st EXCEPT !.section.rows = Append(@, el.cells)]
      [] el.t = "Entry" ->
           [st EXCEPT !.section.dictionary = Insert(@, el.key, el.value)]
      [] OTHER -> st

\* a commit that files unnamed content under "root" with a filter too
read_commit_unfiltered(st, filter) ==
    IF IsSome(st.name) THEN Insert(st.map, Get(st.name), st.section)
    ELSE Insert(st.map, root, st.section)

\* the commit after the loop (lines 406-414)
read_commit(st, filter) ==
    IF IsSome(st.name) THEN Insert(st.map, Get(st.name), st.section)
    ELSE IF ~IsSome(filter) THEN Insert(st.map, root, st.section)
    ELSE st.map

\* a return that tolerates one error
read_return_lenient(errs, m) == IF Len(errs) > 1 THEN None ELSE Some(m)

\* what read() returns (lines 416-420)
read_return(errs, m) == IF errs # <<>> THEN None ELSE Some(m)

-----------------------------------------------------------------------------
(* Inputs *)

A == <<"A">>
B == <<"B">>

\* The lines documents are assembled from.
Lines == <<
    <<"[","A","]","\n">>,       \*  1  header A
    <<"[","B","]","\n">>,       \*  2  header B
    <<"x","=","1","\n">>,       \*  3  entry x = 1
    <<"y","=","2","\n">>,       \*  4  entry y = 2
    <<"|","c","|","\n">>,       \*  5  row of one cell
    <<"#","k","\n">>,           \*  6  comment
    <<"z","\n">>,               \*  7  a key without =
    <<"=","1","\n">>,           \*  8  = without a key
    <<"w","=","\n">>,                                   \*  9  = without a value
    <<"\n">>,                                           \* 10  blank line
    <<"s"," ","="," ","\"","v","\"","\n">>,             \* 11  entry s = "v"
    <<"a","=","[","1",",","{","b","=","2","}","]","\n">>,   \* 12  entry a=[1,{b=2}]
    <<"|","|","c"," ","|","\n">>,                       \* 13  row of an empty cell and c
    <<"|","c","\n">>,                                   \* 14  row whose cell is not closed
    <<"x","=","[","A","]","\n">>,                       \* 15  entry with [ inside the line
    <<"|","c","|"," ","#","k","\n">>,                   \* 16  row followed by a comment
    <<"a","=","[","{","b","=","]","\n">>,               \* 17  no value inside a dictionary inside an array
    <<"a","=","{","b","=","1","\n">>,                   \* 18  dictionary that no } closes
    <<"a","=","[","1","\n">>,                           \* 19  array that no ] closes
    <<"a","=","[","1">>                                 \* 20  array cut off, without line end
>>

MaxLines == 3        \* lines of a document
MaxExtraCalls == 2   \* calls of next() after read() returned

RECURSIVE Flatten(_)
Flatten(d) == IF d = <<>> THEN <<>> ELSE Lines[Head(d)] \o Flatten(Tail(d))

\* all sequences over a set, up to a length
Seqs(S, n) == UNION {[1..k -> S] : k \in 0..n}

Filters == {None, Some(<<A>>), Some(<<A, B>>)}

-----------------------------------------------------------------------------
(* The state machine: read() and the calls of next() it makes *)

Self == [input |-> input, cur |-> cur, errors |-> errors,
         accepted_sections |-> accepted_sections]

Local == [map |-> map, section |-> section, name |-> name]

\* Parser::new / Parser::new_filtered followed by the first lines of read()
InitWith(d, text, filter) ==
    /\ doc = d
    /\ input = text
    /\ cur = 1
    /\ errors = <<>>
    /\ accepted_sections = filter
    /\ config = filter
    /\ pc = "read"
    /\ map = EmptyMap
    /\ section = NewSection
    /\ name = None
    /\ result = None
    /\ calls = <<>>

Init == \E d \in Seqs(1..9, MaxLines), f \in Filters : InitWith(d, Flatten(d), f)

SetParser(p) ==
    /\ cur' = p.cur
    /\ errors' = p.errors
    /\ accepted_sections' = p.accepted_sections

\* cur is where the call left the cursor
Called(n) == calls' = Append(calls, [r |-> n.r, at |-> n.at, cur |-> n.p.cur])

\* one iteration of read()'s loop: next() yields an element
ReadStep ==
    /\ pc = "read"
    /\ \E n \in {next(Self)} :
          /\ IsSome(n.r)
          /\ SetParser(n.p)
          /\ Called(n)
          /\ \E st \in {read_element(Local, Get(n.r))} :
                map' = st.map /\ section' = st.section /\ name' = st.name
    /\ UNCHANGED <<input, pc, result, config, doc>>

\* next() yields None: the loop ends, the open section is committed, read() returns
ReadEnd ==
    /\ pc = "read"
    /\ \E n \in {next(Self)} :
          /\ ~IsSome(n.r)
          /\ SetParser(n.p)
          /\ Called(n)
          /\ map' = read_commit(Local, n.p.accepted_sections)
          /\ result' = read_return(n.p.errors, map')
    /\ pc' = "done"
    /\ UNCHANGED <<input, section, name, config, doc>>

\* the index in calls of the None that ended read()'s loop
FirstNone ==
    CHOOSE i \in 1..Len(calls) : calls[i].r = None /\ \A j \in 1..(i - 1) : calls[j].r # None

\* the caller goes on calling next() on the parser after read() returned
NextAgain ==
    /\ pc = "done"
    /\ Len(calls) - FirstNone < MaxExtraCalls
    /\ \E n \in {next(Self)} : SetParser(n.p) /\ Called(n)
    /\ UNCHANGED <<input, pc, map, section, name, result, config, doc>>

Next == ReadStep \/ ReadEnd \/ NextAgain

Spec == Init /\ [][Next]_vars

-----------------------------------------------------------------------------
(* What a document says, line by line: the reference the claims are read against *)

WellFormedLines == 1..6
HeaderLines == {1, 2}
HeaderName(l) == IF l = 1 THEN A ELSE B

\* the element a well-formed line stands for
LineElement(l) ==
    CASE l = 1 -> SectionEl(A)
      [] l = 2 -> SectionEl(B)
      [] l = 3 -> Entry(<<"x">>, Integer(1))
      [] l = 4 -> Entry(<<"y">>, Integer(2))
      [] l = 5 -> Row(<<String(<<"c">>)>>)
      [] l = 6 -> Comment(<<"k", "\n">>)
      [] l = 11 -> Entry(<<"s">>, String(<<"v">>))
      [] l = 12 -> Entry(<<"a">>, Array(<<Integer(1),
                                      Dictionary(Insert(EmptyMap, <<"b">>, Integer(2)))>>))
      [] l = 13 -> Row(<<String(<<>>), String(<<"c">>)>>)
      [] l = 14 -> Row(<<String(<<"c">>)>>)

WellFormed == \A i \in 1..Len(doc) : doc[i] \in WellFormedLines

\* the positions of the headers of a name, and of all headers
HeaderIdx(n) == {i \in 1..Len(doc) : doc[i] \in HeaderLines /\ HeaderName(doc[i]) = n}
AllHeaders == {i \in 1..Len(doc) : doc[i] \in HeaderLines}

Min(S) == CHOOSE x \in S : \A y \in S : x <= y
Max(S) == CHOOSE x \in S : \A y \in S : x >= y

\* the entries and rows of lines from..to of the document, as a section
RECURSIVE Content(_, _)
Content(from, to) ==
    IF from > to THEN NewSection
    ELSE Bind(Content(from, to - 1), LAMBDA s :
         IF doc[to] \in {3, 4}
           THEN [s EXCEPT !.dictionary =
                    Insert(@, LineElement(doc[to]).key, LineElement(doc[to]).value)]
         ELSE IF doc[to] = 5
           THEN [s EXCEPT !.rows = Append(@, LineElement(doc[to]).cells)]
         ELSE s)

\* the content of the occurrence whose header is line i: up to the next header
OccurrenceContent(i) ==
    Content(i + 1, IF \E j \in AllHeaders : j > i
                     THEN Min({j \in AllHeaders : j > i}) - 1
                     ELSE Len(doc))

\* the content before the first header
LeadingContent ==
    Content(1, IF AllHeaders = {} THEN Len(doc) ELSE Min(AllHeaders) - 1)

\* read() has just returned: no next() has been called since
JustReturned == pc = "done" /\ Len(calls) = FirstNone

NoFilter == config = None

-----------------------------------------------------------------------------
(* Claims about read() and next() on documents of lines *)

\* C1: read() is all-or-nothing. When the element stream ends, read() returns
\* failure exactly when the parser's error list is not empty, and otherwise it
\* returns the committed map; on failure no map is returned, whatever was
\* assembled before the error.
C1_AllOrNothing ==
    JustReturned =>
        /\ (result = None) <=> (errors # <<>>)
        /\ errors = <<>> => result = Some(map)

\* C1, its case: read() returned failure although a section with an entry had
\* already been assembled.
C1_Witness ==
    /\ JustReturned
    /\ errors # <<>>
    /\ result = None
    /\ \E n \in DOMAIN map : DOMAIN map[n].dictionary # {}

\* C2: with no filter, the entries and rows that precede the first header are
\* in read()'s result under "root", whether or not named sections follow; an
\* empty input yields exactly the section "root", empty.  Stated for documents
\* of well-formed lines only.
C2_RootHoldsLeadingContent ==
    (JustReturned /\ NoFilter /\ WellFormed) =>
        /\ IsSome(result)
        /\ LeadingContent # NewSection =>
               root \in DOMAIN Get(result) /\ Get(result)[root] = LeadingContent
        /\ doc = <<>> => Get(result) = Insert(EmptyMap, root, NewSection)

\* C3: a top-level line with a key and no "=", or with "=" and no key, records
\* an error, and read() then reports failure.  The line is the first one that
\* is not well formed, and no filter is configured, so the parser reaches it.
C3_MissingSeparatorFails ==
    (/\ JustReturned
     /\ NoFilter
     /\ \E i \in 1..Len(doc) : /\ doc[i] \in {7, 8}
                               /\ \A j \in 1..(i - 1) : doc[j] \in WellFormedLines) =>
        errors # <<>> /\ result = None

\* C4: with no filter, a name that occurs in several headers holds in read()'s
\* result exactly the entries and rows of its last occurrence.
C4_LastOccurrenceWins ==
    (JustReturned /\ NoFilter /\ IsSome(result)) =>
        \A n \in {A, B} :
            Cardinality(HeaderIdx(n)) >= 2 =>
                /\ n \in DOMAIN Get(result)
                /\ Get(result)[n] = OccurrenceContent(Max(HeaderIdx(n)))

\* C4 on documents of well-formed lines.
C4_LastOccurrenceWinsWellFormed == WellFormed => C4_LastOccurrenceWins

\* C5: with a filter that holds a name once, a name that occurs in several
\* headers holds in read()'s result exactly the entries and rows of its first
\* occurrence, whether it is the only name of the filter or not.
C5_FirstOccurrenceWins ==
    (JustReturned /\ ~NoFilter /\ IsSome(result)) =>
        \A n \in {A, B} :
            (position(Get(config), n) # 0 /\ Cardinality(HeaderIdx(n)) >= 2) =>
                /\ n \in DOMAIN Get(result)
                /\ Get(result)[n] = OccurrenceContent(Min(HeaderIdx(n)))

\* C5 on documents of well-formed lines.
C5_FirstOccurrenceWinsWellFormed == WellFormed => C5_FirstOccurrenceWins

\* C6: the end of the element stream is absorbing. Once next() has returned
\* None, at the end of the input or at a header met with the filter exhausted,
\* every later call returns None.
C6_EndIsAbsorbing ==
    \A i, j \in 1..Len(calls) :
        (i < j /\ calls[i].r = None /\ calls[i].at \in {"eof", "filter"}) =>
            calls[j].r = None

\* C6 at the end of the input only.
C6_EndOfInputIsAbsorbing ==
    \A i, j \in 1..Len(calls) :
        (i < j /\ calls[i].r = None /\ calls[i].at = "eof") => calls[j].r = None

\* the elements read() consumed: what next() yielded before its first None
Elements == [i \in 1..(FirstNone - 1) |-> Get(calls[i].r)]

SectionIdx(els) == {i \in 1..Len(els) : els[i].t = "Section"}

\* the entries and rows among els[from..to], as a section
RECURSIVE ElementContent(_, _, _)
ElementContent(els, from, to) ==
    IF from > to THEN NewSection
    ELSE Bind(ElementContent(els, from, to - 1), LAMBDA s :
         IF els[to].t = "Entry"
           THEN [s EXCEPT !.dictionary = Insert(@, els[to].key, els[to].value)]
         ELSE IF els[to].t = "Row"
           THEN [s EXCEPT !.rows = Append(@, els[to].cells)]
         ELSE s)

\* the sections of an element stream, each with what follows its last header
\* up to the next header; what precedes the first header is in no section
Assemble(els) ==
    [n \in {els[i].name : i \in SectionIdx(els)} |->
        Bind(Max({i \in SectionIdx(els) : els[i].name = n}), LAMBDA i :
        ElementContent(els, i + 1,
            IF \E j \in SectionIdx(els) : j > i
              THEN Min({j \in SectionIdx(els) : j > i}) - 1
            ELSE Len(els)))]

\* every entry and row of the result's section n stands in the document after
\* the first header of n
FromAfterHeader(m, n) ==
    /\ HeaderIdx(n) # {}
    /\ \A k \in DOMAIN m[n].dictionary :
          \E i \in 1..Len(doc) : /\ i > Min(HeaderIdx(n))
                                 /\ doc[i] \in {3, 4}
                                 /\ LineElement(doc[i]).key = k
    /\ Len(m[n].rows) <= Cardinality({i \in 1..Len(doc) : i > Min(HeaderIdx(n)) /\ doc[i] = 5})

\* with a filter, what precedes the first accepted header is in no section of
\* the result, and there is no "root"
C7_LeadingContentDropped ==
    IsSome(result) =>
        /\ Get(result) = Assemble(Elements)
        /\ root \notin DOMAIN Get(result)
        /\ \A n \in DOMAIN Get(result) : FromAfterHeader(Get(result), n)

C7_WitnessNoHeader ==
    /\ JustReturned
    /\ ~NoFilter
    /\ SectionIdx(Elements) = {}
    /\ \E i \in 1..Len(Elements) : Elements[i].t = "Entry"
    /\ result = Some(EmptyMap)

-----------------------------------------------------------------------------
(* Entries whose value is written character by character *)

ValChars == {"[", "]", "{", "}", "\"", "1", "a", "=", "."}
MaxValLen == 3       \* characters of the value text

\* the input is k= followed by the value text; no filter
InitVal == \E t \in Seqs(ValChars, MaxValLen) : InitWith(<<>>, <<"k", "=">> \o t, None)

SpecVal == InitVal /\ [][Next]_vars

\* the text after k=
ValueText == SubSeq(input, 3, Len(input))

Occurs(ch, t) == \E i \in 1..Len(t) : t[i] = ch

\* the input ends where the value is expected, or in an array that no "]"
\* closes, or in a dictionary that no "}" closes
InputExhausted ==
    \/ ValueText = <<>>
    \/ ValueText # <<>> /\ Head(ValueText) = "[" /\ ~Occurs("]", ValueText)
    \/ ValueText # <<>> /\ Head(ValueText) = "{" /\ ~Occurs("}", ValueText)

\* C8: when the input is exhausted where an entry's value is expected, or before
\* the "]" of an array or the "}" of a dictionary, an error is recorded, the
\* entry yields nothing, and read() reports failure.
C8_ExhaustedInputFails ==
    (JustReturned /\ InputExhausted) =>
        /\ errors # <<>>
        /\ Elements = <<>>
        /\ result = None

\* C8 where the value text is empty or holds no string, key or nested value
\* after its opening bracket.
C8_ExhaustedAtBracket ==
    (JustReturned /\ ValueText \in {<<>>, <<"[">>, <<"{">>}) =>
        /\ errors # <<>>
        /\ Elements = <<>>
        /\ result = None

\* the value text opens a dictionary and the entry k was not produced
DictionaryFailed ==
    ValueText # <<>> /\ Head(ValueText) = "{" /\ Elements = <<>>

\* C17: whenever the dictionary production fails, because an entry inside the
\* braces cannot be parsed or because the input ends before "}", an error has
\* been recorded, so read() reports failure.
C17_DictionaryFailureIsRecorded ==
    (JustReturned /\ DictionaryFailed) => (errors # <<>> /\ result = None)

\* C17 where the input ends right after "{" or where the value of an inner
\* entry is missing.
C17_DictionaryFailureAtValue ==
    (JustReturned /\ ValueText \in {<<"{">>, <<"{", "a", "=">>}) =>
        (Elements = <<>> /\ errors # <<>> /\ result = None)

\* the value text is a digit run, then ".", then no digit
DigitsThenBareDot ==
    \E n \in 1..(Len(ValueText) - 1) :
        /\ \A i \in 1..n : ValueText[i] \in AsciiDigit
        /\ ValueText[n + 1] = "."
        /\ (n + 2 <= Len(ValueText) => ValueText[n + 2] \notin AsciiDigit)

\* C18: a number whose digit run is followed by "." and by no fractional digit
\* fails the value: no Entry is produced for it.
C18_BareDotFailsTheValue ==
    (JustReturned /\ DigitsThenBareDot) =>
        \A i \in 1..Len(Elements) : Elements[i].t # "Entry"

\* C18, what the code does instead: the entry is produced with the digit run as
\* a float.
C18_BareDotIsAFloat ==
    (JustReturned /\ DigitsThenBareDot) =>
        (Elements # <<>> /\ Elements[1].t = "Entry" /\ Elements[1].value[1] = "Float")

-----------------------------------------------------------------------------
(* Well-formed documents, no filter *)

BlankLines == {10}
ClosedLines == (1..6) \cup (10..13)      \* every table line ends with |
GrammarLines == ClosedLines \cup {14}    \* the last cell of a row may lack its |

InitWF == \E d \in Seqs(GrammarLines, MaxLines) : InitWith(d, Flatten(d), None)

SpecWF == InitWF /\ [][Next]_vars

\* the elements the lines d[1..n] stand for, in order
RECURSIVE Expected(_, _)
Expected(d, n) ==
    IF n = 0 THEN <<>>
    ELSE IF d[n] \in BlankLines THEN Expected(d, n - 1)
    ELSE Append(Expected(d, n - 1), LineElement(d[n]))

\* next() yielded one element per construct, in order, and then None, from the
\* end of the input, on every later call
OneElementPerConstruct ==
    /\ Elements = Expected(doc, Len(doc))
    /\ \A j \in FirstNone..Len(calls) : calls[j].r = None /\ calls[j].at = "eof"

\* C9: on a well-formed document with no filter, next() yields exactly one
\* element per construct, in source order, blank lines yield nothing, nothing is
\* yielded twice, and after the last construct next() returns None.  The
\* documents are those of the grammar: the last cell of a row need not be closed.
C9_OneElementPerConstruct == pc = "done" => OneElementPerConstruct

\* C9 on documents whose table lines all end with |.
C9_OneElementPerConstructClosedRows ==
    (pc = "done" /\ \A i \in 1..Len(doc) : doc[i] \in ClosedLines) => OneElementPerConstruct

-----------------------------------------------------------------------------
(* Table lines written character by character *)

RowChars == {"|", " ", "n", "\\", "#", "\r"}
MaxRowLen == 4       \* characters between the first and the last | of the line

\* the input is a table line that starts and ends with |, alone or followed by
\* an entry line; no filter
InitRow ==
    \E body \in Seqs(RowChars, MaxRowLen), d \in {<<>>, <<3>>} :
        InitWith(d, <<"|">> \o body \o <<"|", "\n">> \o Flatten(d), None)

SpecRow == InitRow /\ [][Next]_vars

\* the first line of the input, without its newline
RowLine == SubSeq(input, 1, Min({i \in 1..Len(input) : input[i] = "\n"}) - 1)

\* the positions of the unescaped delimiters: a | that no backslash precedes
Delims == {i \in 1..Len(RowLine) : RowLine[i] = "|" /\ (i = 1 \/ RowLine[i - 1] # "\\")}

\* the j-th smallest member of a set of numbers
Nth(S, j) == CHOOSE x \in S : Cardinality({y \in S : y < x}) = j - 1

Blank == {" ", "\t"}

RECURSIVE TrimLeft(_)
TrimLeft(t) == IF t # <<>> /\ Head(t) \in Blank THEN TrimLeft(Tail(t)) ELSE t

RECURSIVE TrimRight(_, _)
TrimRight(t, class) ==
    IF t # <<>> /\ t[Len(t)] \in class THEN TrimRight(SubSeq(t, 1, Len(t) - 1), class) ELSE t

\* the text between the j-th delimiter and the next, without its leading blanks
Between(j) == TrimLeft(SubSeq(RowLine, Nth(Delims, j) + 1, Nth(Delims, j + 1) - 1))

\* the line ends with an unescaped delimiter
ClosedRow == Len(RowLine) \in Delims

\* some cell begins, after its blanks, with the comment sign or a carriage return
CellEndsRow ==
    \E j \in 1..(Cardinality(Delims) - 1) : Between(j) # <<>> /\ Head(Between(j)) \in {"#", "\r"}

\* C10 as stated: a table line that starts with |, holds k unescaped delimiters
\* and ends with one yields a Row of k-1 String cells in source order, each the
\* text between two consecutive delimiters without the spaces and tabs around
\* it; an empty or blank text yields an empty cell.
C10_Original ==
    (JustReturned /\ ClosedRow) =>
        /\ Elements # <<>>
        /\ Elements[1] = Row([j \in 1..(Cardinality(Delims) - 1) |->
                                 String(TrimRight(Between(j), Blank))])

\* C10, amended: a table line that starts with |, holds k unescaped delimiters,
\* ends with one, and has no cell that begins (after spaces and tabs) with # or
\* a carriage return yields a Row of k-1 String cells in source order, each the
\* text between two consecutive delimiters without its leading spaces and tabs
\* and its trailing whitespace, and with the escapes \\, \n and \| replaced, in
\* this order, by a backslash, a newline and |; an empty or blank text yields an
\* empty cell.
C10_RowCells ==
    (JustReturned /\ ClosedRow /\ ~CellEndsRow) =>
        /\ Elements # <<>>
        /\ Elements[1] =
              Row([j \in 1..(Cardinality(Delims) - 1) |->
                      String(replace(replace(replace(TrimRight(Between(j), WhiteSpace),
                                                     "\\", "\\", "\\"),
                                             "\\", "n", "\n"),
                                     "\\", "|", "|"))])

\* C10, its case: a closed table line of three cells, the second empty and
\* another one with an escape, read as a Row of three cells.
C10_Witness ==
    /\ JustReturned
    /\ ClosedRow
    /\ ~CellEndsRow
    /\ Cardinality(Delims) = 4
    /\ Elements # <<>>
    /\ Elements[1].t = "Row"
    /\ Len(Elements[1].cells) = 3
    /\ Elements[1].cells[2] = String(<<>>)
    /\ \E j \in {1, 3} : Elements[1].cells[j] # String(TrimRight(Between(j), Blank))

-----------------------------------------------------------------------------
(* Entries whose value is a string literal written from a text *)

StrChars == {"\\", "n", "\"", "\n", "a"}
MaxStrLen == 3       \* characters of the text

\* the text with \ written as \\, newline as \n and " as \"
RECURSIVE Render(_)
Render(t) ==
    IF t = <<>> THEN <<>>
    ELSE (CASE Head(t) = "\\" -> <<"\\", "\\">>
            [] Head(t) = "\n" -> <<"\\", "n">>
            [] Head(t) = "\"" -> <<"\\", "\"">>
            [] OTHER -> <<Head(t)>>) \o Render(Tail(t))

Opened(t) == <<"k", "=", "\"">> \o Render(t)

\* the input is k=" followed by the rendered text, with or without the closing
\* quote; no filter
InitStr ==
    \E t \in Seqs(StrChars, MaxStrLen), close \in {<<>>, <<"\"">>} :
        InitWith(t, Opened(t) \o close, None)

SpecStr == InitStr /\ [][Next]_vars

ClosedLiteral == input = Opened(doc) \o <<"\"">>
OpenLiteral == input = Opened(doc)

\* the first call of next() yielded the entry k with the string s and left the
\* cursor at the end of the input
YieldedString(s) ==
    /\ Elements = <<Entry(<<"k">>, String(s))>>
    /\ calls[1].cur = Len(input) + 1

\* C11 as stated: for every text, the literal that writes \ as \\, newline as \n
\* and " as \" between double quotes parses back to String(text), the parser
\* stopping just after the closing quote.
C11_Original == (JustReturned /\ ClosedLiteral) => YieldedString(doc)

\* C11, amended: for every text that holds no backslash (it may hold newlines
\* and double quotes), the literal that writes newline as \n and " as \" between
\* double quotes parses back to String(text), the parser stopping just after the
\* closing quote.
C11_RoundTrip ==
    (JustReturned /\ ClosedLiteral /\ ~Occurs("\\", doc)) => YieldedString(doc)

\* C11, its case: a text with a newline and a double quote was written as a
\* literal and read back.
C11_Witness ==
    /\ JustReturned
    /\ ClosedLiteral
    /\ ~Occurs("\\", doc)
    /\ Occurs("\n", doc)
    /\ Occurs("\"", doc)
    /\ YieldedString(doc)

\* C12: a string literal without its closing quote yields String(the remaining
\* input, unescaped) and records no error, for every remaining text, the empty
\* one too; the entry is produced and read() succeeds.
C12_UnterminatedString ==
    (JustReturned /\ OpenLiteral) =>
        /\ YieldedString(StringUnescape(Render(doc)))
        /\ errors = <<>>
        /\ IsSome(result)

\* C12 where some text follows the opening quote.
C12_UnterminatedNonEmpty == doc # <<>> => C12_UnterminatedString

-----------------------------------------------------------------------------
(* Entries whose value is a dictionary literal written from a list of entries *)

\* the entries a dictionary literal is written from: text, key and value
DictEntries == <<
    [text |-> <<"a","=","1">>,                 key |-> <<"a">>, value |-> Integer(1)],
    [text |-> <<"b"," ","="," ","\"","v","\"">>, key |-> <<"b">>, value |-> String(<<"v">>)],
    [text |-> <<"a","=","2">>,                 key |-> <<"a">>, value |-> Integer(2)],
    [text |-> <<"c","=","[","1","]">>,         key |-> <<"c">>, value |-> Array(<<Integer(1)>>)]
>>

MaxEntries == 3      \* entries of a dictionary literal

\* the texts of the entries d, with sep between them
RECURSIVE Join(_, _)
Join(d, sep) ==
    IF d = <<>> THEN <<>>
    ELSE IF Len(d) = 1 THEN DictEntries[d[1]].text
    ELSE DictEntries[d[1]].text \o sep \o Join(Tail(d), sep)

\* the literal of the entries d: pad follows { and precedes }
Literal(d, sep, pad) == <<"{">> \o pad \o Join(d, sep) \o pad \o <<"}">>

CommaLiteral(d) == Literal(d, <<",">>, <<>>)

\* the input is k= followed by a dictionary literal whose entries are separated
\* by commas or by newlines; no filter
InitDict ==
    \E d \in Seqs(1..Len(DictEntries), MaxEntries), sep \in {<<",">>, <<"\n">>},
       pad \in {<<>>, <<"\n">>} :
        InitWith(d, <<"k", "=">> \o Literal(d, sep, pad), None)

SpecDict == InitDict /\ [][Next]_vars

\* the dictionary the entries d[1..n] make, a later entry replacing an earlier
\* one of the same key
RECURSIVE ExpectedDict(_, _)
ExpectedDict(d, n) ==
    IF n = 0 THEN EmptyMap
    ELSE Insert(ExpectedDict(d, n - 1), DictEntries[d[n]].key, DictEntries[d[n]].value)

\* C13: a dictionary literal whose entries are separated by newlines (a newline
\* may follow { and precede }) parses to the same Dictionary as the literal with
\* the same entries separated by commas, and neither records an error.
C13_NewlinesAsCommas ==
    JustReturned =>
        /\ errors = <<>>
        /\ Elements = <<Entry(<<"k">>, Dictionary(ExpectedDict(doc, Len(doc))))>>
        /\ Some(Elements[1].value) =
              value([input |-> CommaLiteral(doc), cur |-> 1, errors |-> <<>>,
                     accepted_sections |-> None]).r

\* C13, its case: two entries or more, separated by newlines, with a newline
\* after { and before }, were read as a dictionary.
C13_Witness ==
    /\ JustReturned
    /\ Len(doc) >= 2
    /\ input = <<"k", "=">> \o Literal(doc, <<"\n">>, <<"\n">>)
    /\ Elements # <<>>
    /\ Elements[1].value = Dictionary(ExpectedDict(doc, Len(doc)))
    /\ Cardinality(DOMAIN ExpectedDict(doc, Len(doc))) >= 2

-----------------------------------------------------------------------------
(* Rejected sections: documents with a [ inside a line, under a filter *)

SkipLines == {1, 2, 3, 15}

InitSkip ==
    \E d \in Seqs(SkipLines, MaxLines), f \in {Some(<<A>>), Some(<<A, B>>)} :
        InitWith(d, Flatten(d), f)

SpecSkip == InitSkip /\ [][Next]_vars

\* the calls of next(), so far, that yielded a Section of the name n
SectionCalls(n) ==
    {i \in 1..Len(calls) : /\ calls[i].r # None
                           /\ Get(calls[i].r).t = "Section"
                           /\ Get(calls[i].r).name = n}

\* C14: within a rejected section a line is discarded as a whole, so a [ later
\* in a line never opens a section and never takes a name from the filter:
\* every Section yielded, and every name taken from the filter, is that of a
\* header line of the document.
C14_OnlyHeaderLinesOpenSections ==
    \A n \in {A, B} :
        /\ Cardinality(SectionCalls(n)) <= Cardinality(HeaderIdx(n))
        /\ (position(Get(config), n) # 0 /\ position(Get(accepted_sections), n) = 0) =>
              HeaderIdx(n) # {}

-----------------------------------------------------------------------------
(* Table lines among other lines, no filter *)

TableLines == {1, 3, 5, 6, 14, 16}
CommentedRow == 16       \* the line |c| #k

InitTable == \E d \in Seqs(TableLines, MaxLines) : InitWith(d, Flatten(d), None)

SpecTable == InitTable /\ [][Next]_vars

\* the elements the lines d[1..n] stand for, the comment after a row being an
\* element of its own
RECURSIVE ExpectedTable(_, _)
ExpectedTable(d, n) ==
    IF n = 0 THEN <<>>
    ELSE IF d[n] = CommentedRow
      THEN ExpectedTable(d, n - 1) \o <<Row(<<String(<<"c">>)>>), Comment(<<"k", "\n">>)>>
    ELSE Append(ExpectedTable(d, n - 1), LineElement(d[n]))

ClosedRows == \A i \in 1..Len(doc) : doc[i] # 14

\* C15: when a row is followed on its line by a # comment, the row's cells stop
\* before the comment and the next call of next() yields the comment as a
\* Comment element.  Stated for documents whose rows all end with |.
C15_CommentAfterRowIsYielded ==
    (pc = "done" /\ ClosedRows) => Elements = ExpectedTable(doc, Len(doc))

\* C15, the part about the cells: the row of the line |c| #k holds the cell c
\* alone.
C15_CellsStopBeforeComment ==
    (pc = "done" /\ ClosedRows) =>
        \A i \in 1..Len(Elements) :
            Elements[i].t = "Row" => Elements[i].cells = <<String(<<"c">>)>>

\* where the i-th call of next() found the cursor
CursorBefore(i) == IF i = 1 THEN 1 ELSE calls[i - 1].cur

\* the first character of the element the i-th call yielded: next() skips
\* blanks and line ends before it
ElementStart(i) == WhileEnd(input, CursorBefore(i), {" ", "\t", "\n", "\r"})

\* the index just after the newline that ends the line of the character at i
AfterLineOf(i) ==
    IF FindChar(input, i, "\n") = 0 THEN Len(input) + 1 ELSE FindChar(input, i, "\n") + 1

\* C16: a row is never consumed past its own line: when row() returns, the
\* cursor is at most just after the newline of the line its leading | stands
\* on, also when the last cell has no closing |, and no text of a following
\* line is part of a cell.
C16_RowStaysOnItsLine ==
    \A i \in 1..Len(calls) :
        (calls[i].r # None /\ Get(calls[i].r).t = "Row") =>
            /\ calls[i].cur <= AfterLineOf(ElementStart(i))
            /\ \A j \in 1..Len(Get(calls[i].r).cells) :
                  ~Occurs("\n", Get(calls[i].r).cells[j][2])

\* C16 on documents whose rows all end with |.
C16_ClosedRowStaysOnItsLine == ClosedRows => C16_RowStaysOnItsLine

-----------------------------------------------------------------------------
(* Filters of every shape, a name listed twice included *)

MaxFilterLen == 2    \* names in the configured list
FilterLines == {1, 2, 3}

InitFilter ==
    \E d \in Seqs(FilterLines, MaxLines), f \in Seqs({A, B}, MaxFilterLen) :
        InitWith(d, Flatten(d), Some(f))

SpecFilter == InitFilter /\ [][Next]_vars

NameSet(v) == {v[i] : i \in 1..Len(v)}

YieldedNames == {n \in {A, B} : SectionCalls(n) # {}}

\* C19: under filtering, whatever the configured list (a name listed twice
\* counts once), at most one Section element is yielded per name, every yielded
\* name is in the configured list, and the remaining list has not grown and has
\* lost exactly the accepted names.
C19_FilterActsAsSet ==
    /\ \A n \in {A, B} : Cardinality(SectionCalls(n)) <= 1
    /\ YieldedNames \subseteq NameSet(Get(config))
    /\ Len(Get(accepted_sections)) <= Len(Get(config))
    /\ NameSet(Get(accepted_sections)) = NameSet(Get(config)) \ YieldedNames

\* C19 for configured lists that name no section twice.
C19_DistinctFilterActsAsSet ==
    Cardinality(NameSet(Get(config))) = Len(Get(config)) => C19_FilterActsAsSet

\* C19, what the code keeps for every list: one entry of the list is spent per
\* yielded Section element.
C19_FilterIsConsumedPerSection ==
    /\ YieldedNames \subseteq NameSet(Get(config))
    /\ Len(Get(accepted_sections)) =
           Len(Get(config)) - Cardinality(SectionCalls(A)) - Cardinality(SectionCalls(B))

-----------------------------------------------------------------------------
(* Termination: read() runs its loop to the end *)

\* a header, an entry, a key without value, nested values, rows closed, unclosed
\* and commented, a bracket inside a line
TermLines == {1, 3, 7, 12, 14, 15, 16}

InitTerm ==
    \E d \in Seqs(TermLines, MaxLines), f \in {None, Some(<<A>>)} :
        InitWith(d, Flatten(d), f)

\* read() is one uninterrupted loop: while it has not returned, its next
\* iteration is taken
SpecTerm == InitTerm /\ [][Next]_vars /\ WF_vars(ReadStep \/ ReadEnd)

\* a call of next() was made in this step, and it yielded an element
Yielded == Len(calls') = Len(calls) + 1 /\ calls'[Len(calls')].r # None

ForwardStep == cur' >= cur /\ (Yielded => cur' > cur)

YieldingCalls == {i \in 1..Len(calls) : calls[i].r # None}

\* C20: every call of next() returns, never moves the cursor backwards, and has
\* consumed at least one character when it yields an element; read() returns
\* on every input, after at most as many elements as the input has characters.
C20_ForwardAndTerminates ==
    /\ [][ForwardStep]_vars
    /\ [](Cardinality(YieldingCalls) <= Len(input))
    /\ [](pc = "read" => ENABLED (ReadStep \/ ReadEnd))
    /\ <>(pc = "done")

\* read() has returned after several elements, the whole input consumed
C20_Witness ==
    /\ pc = "done"
    /\ FirstNone >= 3
    /\ cur = Len(input) + 1
    /\ \A i \in 1..(Len(calls) - 1) : calls[i].cur <= calls[i + 1].cur

-----------------------------------------------------------------------------
(* Documents with values that fail, alone and nested *)

ErrLines == {3, 9, 12, 17, 18, 19, 20}

InitErr == \E d \in Seqs(ErrLines, MaxLines) : InitWith(d, Flatten(d), None)

SpecErr == InitErr /\ [][Next]_vars

\* C21: during one read() on a new parser the error list never holds more than
\* one error: while the loop of read() runs no error has been recorded, and the
\* call of next() that records one returns None, which ends the loop, the
\* productions around the failure having recorded nothing more.
C21_AtMostOneErrorPerRead ==
    /\ pc = "read" => errors = <<>>
    /\ JustReturned =>
          /\ Len(errors) <= 1
          /\ errors # <<>> => (calls[FirstNone].r = None /\ calls[FirstNone].at = "element")

\* C21 for every call of next(), those made after read() returned included: a
\* call records at most one error, and a call that records one yields None.
C21_OneErrorPerCall ==
    [][errors' # errors =>
          /\ Len(errors') = Len(errors) + 1
          /\ SubSeq(errors', 1, Len(errors)) = errors
          /\ calls'[Len(calls')].r = None]_vars

\* read() has returned with one error, recorded inside the dictionary inside
\* the array of the first line, and text is left unread
C21_Witness ==
    /\ JustReturned
    /\ Len(errors) = 1
    /\ Len(doc) >= 2 /\ doc[1] = 17
    /\ cur <= Len(input)

=============================================================================
